---- MODULE Spec2Model ----
(***************************************************************************)
(* State-machine model of the metatools-vault program                      *)
(* (contracts/metatools-vault/program/src/*.rs with the record layouts of  *)
(* contracts/metatools-vault/api/src/state/*.rs).                          *)
(*                                                                         *)
(* The account store is one map from address to typed record.  Every       *)
(* instruction handler is an operator from the current store and the       *)
(* instruction's inputs to an outcome [err, accounts, invoked]: the result, *)
(* the store it leaves and the system transfers it invoked.  An action     *)
(* applies one handler.  A handler that returns Err leaves the store as it *)
(* was (the runtime discards the writes and the transfers of a failed      *)
(* instruction).                                                           *)
(*                                                                         *)
(* u64 / u128 quantities are little-endian sequences of 16-bit limbs, so   *)
(* that they keep their real width: `as u128` widens to 8 limbs, `as u64`  *)
(* keeps the low 4 limbs, `+=` carries out of the 4th limb.  The two small *)
(* counters (active_positions: u32, next_position_id: u64) are plain       *)
(* naturals; MaxPositions keeps them far below their widths.               *)
(*                                                                         *)
(* Not modelled: the Clock-derived fields (created_at, last_activity,      *)
(* opened_at, last_rebalance), the opaque tags copied from the arguments   *)
(* (pool, base_mint, quote_mint, strategy), the events, and the rent paid  *)
(* by account creation.  No handler reads any of them.                     *)
(***************************************************************************)
EXTENDS Integers, Sequences, FiniteSets, TLC

VARIABLES accounts

vars == <<accounts>>

(***************************************************************************)
(* Bounds                                                                  *)
(***************************************************************************)
\* positions that may exist in the whole store (Spec)
MaxPositions == 2

\* positions that may exist in the whole store (SpecFee)
FeeMaxPositions == 1

\* Pubkey::default(): the all-zero key, "no referrer"
DefaultPubkey == "default"

(***************************************************************************)
(* Fixed-width unsigned integers as 16-bit limbs                           *)
(***************************************************************************)
Base == 65536
U64Len == 4
U128Len == 8

RECURSIVE ToLimbs(_, _)
ToLimbs(v, n) == IF n = 0 THEN <<>> ELSE <<v % Base>> \o ToLimbs(v \div Base, n - 1)

\* a u64 literal
U64(v) == ToLimbs(v, U64Len)

\* u64::MAX
U64Max == <<Base - 1, Base - 1, Base - 1, Base - 1>>

\* `x as u128` (and any other zero-extension to n limbs)
Widen(x, n) == x \o ToLimbs(0, n - Len(x))

\* `x as u64`: keeps the low limbs
Truncate(x, n) == SubSeq(x, 1, n)

\* x * k in the width of x (k < 2^16): limb i onwards, given the carry into
\* limb i.  The limb is multiplied byte by byte, hi * 256 + lo = x[i] * k,
\* so that no intermediate value needs more than 31 bits.
RECURSIVE MulLimbs(_, _, _, _)
MulLimbs(x, k, i, carry) ==
    IF i > Len(x) THEN <<>>
    ELSE LET lo == (x[i] % 256) * k
             hi == (x[i] \div 256) * k
             t == (hi % 256) * 256 + lo + carry
         IN  <<t % Base>> \o MulLimbs(x, k, i + 1, hi \div 256 + t \div Base)

MulSmall(x, k) == MulLimbs(x, k, 1, 0)

\* floor(x / d) in the width of x (0 < d < 2^15): limbs 1..i,
\* given the remainder left by the limbs above i
RECURSIVE DivLimbs(_, _, _, _)
DivLimbs(x, d, i, rem) ==
    IF i = 0 THEN <<>>
    ELSE LET t == rem * Base + x[i]
         IN  Append(DivLimbs(x, d, i - 1, t % d), t \div d)

DivSmall(x, d) == DivLimbs(x, d, Len(x), 0)

\* the limbs of x + y from limb i onwards, followed by the carry out
RECURSIVE AddLimbs(_, _, _, _)
AddLimbs(x, y, i, carry) ==
    IF i > Len(x) THEN <<carry>>
    ELSE LET t == x[i] + y[i] + carry
         IN  <<t % Base>> \o AddLimbs(x, y, i + 1, t \div Base)

\* x + y in the width of x, with the carry out of the top limb
AddCarry(x, y) ==
    LET s == AddLimbs(x, y, 1, 0)
    IN  [sum |-> SubSeq(s, 1, Len(x)), carry |-> s[Len(x) + 1]]

\* the limbs of x - y from limb i onwards, followed by the borrow out
RECURSIVE SubLimbs(_, _, _, _)
SubLimbs(x, y, i, borrow) ==
    IF i > Len(x) THEN <<borrow>>
    ELSE LET t == x[i] - y[i] - borrow
         IN  <<(t + Base) % Base>> \o SubLimbs(x, y, i + 1, IF t < 0 THEN 1 ELSE 0)

\* x - y in the width of x, with the borrow out of the top limb
SubBorrow(x, y) ==
    LET s == SubLimbs(x, y, 1, 0)
    IN  [diff |-> SubSeq(s, 1, Len(x)), borrow |-> s[Len(x) + 1]]

\* x < y
Less(x, y) == SubBorrow(x, y).borrow = 1

\* u64::saturating_sub
saturating_sub(x, y) ==
    LET s == SubBorrow(x, y) IN IF s.borrow = 1 THEN U64(0) ELSE s.diff

\* u64::saturating_add
saturating_add(x, y) ==
    LET s == AddCarry(x, y) IN IF s.carry = 1 THEN U64Max ELSE s.sum

(***************************************************************************)
(* Addresses (api/src/state)                                               *)
(***************************************************************************)
\* GlobalConfig::pda()
GlobalConfigPda == <<"config">>

\* VaultMetadata::pda(session_wallet)
VaultMetadataPda(session_wallet) == <<"vault_metadata", session_wallet>>

\* Position::pda(session_wallet, position_id)
PositionPda(session_wallet, position_id) == <<"position", session_wallet, position_id>>

\* VaultMetadata::STATUS_*
STATUS_ACTIVE == 0

\* Position::STATUS_*
STATUS_OPEN == 0
STATUS_CLOSED == 1

\* Position::PROTOCOL_*
PROTOCOL_DLMM == 0
PROTOCOL_DAMM_V2 == 1
PROTOCOL_DAMM_V1 == 2
PROTOCOL_DBC == 3
PROTOCOL_ALPHA_VAULT == 4

(***************************************************************************)
(* Account access (steel as_account / as_account_mut / create)             *)
(***************************************************************************)
\* as_account::<T>: the account must be owned by the program and carry T's
\* discriminator
AsAccountErr(info, kind) ==
    IF info \notin DOMAIN accounts THEN "InvalidAccountOwner"
    ELSE IF accounts[info].kind # kind THEN "InvalidAccountData"
    ELSE "Ok"

\* an account creation that never refuses
CreateAccountErrNever(info) == "Ok"

\* create_program_account_with_bump: the system program refuses to create
\* an account at an address that is in use
CreateAccountErr(info) ==
    IF info \in DOMAIN accounts THEN "AccountAlreadyInUse" ELSE "Ok"

\* the store with the record at `info` written
Put(accts, info, record) ==
    [a \in DOMAIN accts \cup {info} |-> IF a = info THEN record ELSE accts[a]]

\* outcome of a handler: Err before any transfer, Err after some transfers
\* were invoked, Ok
Fail(e) == [err |-> e, accounts |-> accounts, invoked |-> <<>>]

\* an Err after some transfers that is swallowed instead of propagated
FailAfterSwallowed(e, requested) ==
    [err |-> "Ok", accounts |-> accounts, invoked |-> requested]

FailAfter(e, requested) == [err |-> e, accounts |-> accounts, invoked |-> requested]
Done(accts, requested) == [err |-> "Ok", accounts |-> accts, invoked |-> requested]

\* the transfers of an instruction that stay in effect: those it invoked
\* if it returns Ok, none if it returns Err (`invoke(..)?` hands the Err to
\* the runtime, which discards the instruction's transfers and writes)
TransfersInEffect(r) == IF r.err = "Ok" THEN r.invoked ELSE <<>>

(***************************************************************************)
(* initialize_config.rs, update_config.rs                                  *)
(***************************************************************************)
\* the sum taken in u8, where it wraps at 256
TotalPctU8(referral_pct, buyback_pct, treasury_pct) ==
    (referral_pct + buyback_pct + treasury_pct) % 256

\* total_pct: the three u8 percentages summed as u16
TotalPct(referral_pct, buyback_pct, treasury_pct) ==
    (referral_pct + buyback_pct + treasury_pct) % 65536

\* the config initialize_config writes
NewGlobalConfig(admin_key, args) ==
    [kind |-> "GlobalConfig",
     admin |-> admin_key,
     treasury |-> args.treasury,
     buyback_wallet |-> args.buyback_wallet,
     fee_bps |-> args.fee_bps,
     referral_percentage |-> args.referral_pct,
     buyback_percentage |-> args.buyback_pct,
     treasury_percentage |-> args.treasury_pct,
     paused |-> 0]

process_initialize_config(admin_key, config_info, args) ==
    IF TotalPct(args.referral_pct, args.buyback_pct, args.treasury_pct) # 100
    THEN Fail("InvalidFeePercentages")
    ELSE IF GlobalConfigPda # config_info
    THEN Fail("InvalidPDA")
    ELSE IF CreateAccountErr(config_info) # "Ok"
    THEN Fail(CreateAccountErr(config_info))
    ELSE Done(Put(accounts, config_info, NewGlobalConfig(admin_key, args)), <<>>)

\* an update that also makes the new treasury the admin
UpdatedGlobalConfigNewAdmin(config, args, paused) ==
    [config EXCEPT !.admin = args.treasury,
                   !.treasury = args.treasury,
                   !.buyback_wallet = args.buyback_wallet,
                   !.fee_bps = args.fee_bps,
                   !.referral_percentage = args.referral_pct,
                   !.buyback_percentage = args.buyback_pct,
                   !.treasury_percentage = args.treasury_pct,
                   !.paused = paused]

\* the config update_config leaves
UpdatedGlobalConfig(config, args, paused) ==
    [config EXCEPT !.treasury = args.treasury,
                   !.buyback_wallet = args.buyback_wallet,
                   !.fee_bps = args.fee_bps,
                   !.referral_percentage = args.referral_pct,
                   !.buyback_percentage = args.buyback_pct,
                   !.treasury_percentage = args.treasury_pct,
                   !.paused = paused]

process_update_config(admin_key, config_info, args, paused) ==
    IF TotalPct(args.referral_pct, args.buyback_pct, args.treasury_pct) # 100
    THEN Fail("InvalidFeePercentages")
    ELSE IF GlobalConfigPda # config_info
    THEN Fail("InvalidPDA")
    ELSE IF AsAccountErr(config_info, "GlobalConfig") # "Ok"
    THEN Fail(AsAccountErr(config_info, "GlobalConfig"))
    ELSE IF accounts[config_info].admin # admin_key
    THEN Fail("InvalidAuthority")
    ELSE Done(Put(accounts, config_info,
                  UpdatedGlobalConfig(accounts[config_info], args, paused)), <<>>)

(***************************************************************************)
(* create_vault.rs                                                         *)
(***************************************************************************)
\* a new vault that already counts one active position
NewVaultMetadataCountingOne(session_wallet, main_wallet, referrer) ==
    [kind |-> "VaultMetadata",
     session_wallet |-> session_wallet,
     main_wallet |-> main_wallet,
     referrer |-> referrer,
     total_value_locked |-> U64(0),
     total_deposits |-> U64(0),
     total_withdrawals |-> U64(0),
     total_fees_paid |-> U64(0),
     active_positions |-> 1,
     next_position_id |-> 0,
     status |-> STATUS_ACTIVE]

\* the vault create_vault writes
NewVaultMetadata(session_wallet, main_wallet, referrer) ==
    [kind |-> "VaultMetadata",
     session_wallet |-> session_wallet,
     main_wallet |-> main_wallet,
     referrer |-> referrer,
     total_value_locked |-> U64(0),
     total_deposits |-> U64(0),
     total_withdrawals |-> U64(0),
     total_fees_paid |-> U64(0),
     active_positions |-> 0,
     next_position_id |-> 0,
     status |-> STATUS_ACTIVE]

process_create_vault(session_wallet, main_wallet, vault_metadata_info, referrer) ==
    IF VaultMetadataPda(session_wallet) # vault_metadata_info
    THEN Fail("InvalidPDA")
    ELSE IF CreateAccountErr(vault_metadata_info) # "Ok"
    THEN Fail(CreateAccountErr(vault_metadata_info))
    ELSE Done(Put(accounts, vault_metadata_info,
                  NewVaultMetadata(session_wallet, main_wallet, referrer)), <<>>)

(***************************************************************************)
(* open_position.rs                                                        *)
(***************************************************************************)
\* a pause check that never trips
IsPausedNever(config) == FALSE

\* config.paused != 0
IsPaused(config) == config.paused # 0

\* (amount as u128 * rate as u128 / divisor) as u64
MulDivU64(amount, rate, divisor) ==
    Truncate(DivSmall(MulSmall(Widen(amount, U128Len), rate), divisor), U64Len)

\* fee_amount
FeeAmount(initial_tvl, fee_bps) == MulDivU64(initial_tvl, fee_bps, 10000)

\* referral_fee
ReferralFee(fee_amount, referrer, referral_percentage) ==
    IF referrer # DefaultPubkey
    THEN MulDivU64(fee_amount, referral_percentage, 100)
    ELSE U64(0)

\* buyback_fee
BuybackFee(fee_amount, buyback_percentage) == MulDivU64(fee_amount, buyback_percentage, 100)

\* the remainder taken without the referral share
TreasuryFeeLessBuybackOnly(fee_amount, referral_fee, buyback_fee) ==
    LET s == SubBorrow(fee_amount, buyback_fee)
    IN  [value |-> s.diff, underflow |-> s.borrow = 1]

\* treasury_fee = fee_amount - referral_fee - buyback_fee, and whether
\* either subtraction borrows
TreasuryFee(fee_amount, referral_fee, buyback_fee) ==
    LET s1 == SubBorrow(fee_amount, referral_fee)
        s2 == SubBorrow(s1.diff, buyback_fee)
    IN  [value |-> s2.diff, underflow |-> s1.borrow = 1 \/ s2.borrow = 1]

\* the system transfers the handler invokes, in order
FeeTransfers(session_wallet, fee_accounts, referral_fee, buyback_fee, treasury_fee) ==
    (IF referral_fee # U64(0)
     THEN <<[from |-> session_wallet, to |-> fee_accounts.referrer, amount |-> referral_fee]>>
     ELSE <<>>)
    \o <<[from |-> session_wallet, to |-> fee_accounts.buyback, amount |-> buyback_fee],
         [from |-> session_wallet, to |-> fee_accounts.treasury, amount |-> treasury_fee]>>

\* a position that records no fee
NewPositionWithoutFee(session_wallet, position_id, protocol, initial_tvl, fee_amount) ==
    [kind |-> "Position",
     session_wallet |-> session_wallet,
     position_id |-> position_id,
     protocol |-> protocol,
     initial_tvl |-> initial_tvl,
     current_tvl |-> initial_tvl,
     fee_paid |-> U64(0),
     fees_claimed |-> U64(0),
     total_compounded |-> U64(0),
     status |-> STATUS_OPEN]

\* the position open_position writes
NewPosition(session_wallet, position_id, protocol, initial_tvl, fee_amount) ==
    [kind |-> "Position",
     session_wallet |-> session_wallet,
     position_id |-> position_id,
     protocol |-> protocol,
     initial_tvl |-> initial_tvl,
     current_tvl |-> initial_tvl,
     fee_paid |-> fee_amount,
     fees_claimed |-> U64(0),
     total_compounded |-> U64(0),
     status |-> STATUS_OPEN]

\* the four `+=` without the one on next_position_id
VaultAfterOpenKeepingNextId(vault, fee_amount, initial_tvl) ==
    [vault EXCEPT !.active_positions = @ + 1,
                  !.total_fees_paid = AddCarry(@, fee_amount).sum,
                  !.total_value_locked = AddCarry(@, initial_tvl).sum]

\* the vault after open_position's four `+=`, as a wrapping build leaves it
VaultAfterOpen(vault, fee_amount, initial_tvl) ==
    [vault EXCEPT !.active_positions = @ + 1,
                  !.next_position_id = @ + 1,
                  !.total_fees_paid = AddCarry(@, fee_amount).sum,
                  !.total_value_locked = AddCarry(@, initial_tvl).sum]

\* whether one of the two u64 `+=` overflows
OpenOverflows(vault, fee_amount, initial_tvl) ==
    \/ AddCarry(vault.total_fees_paid, fee_amount).carry = 1
    \/ AddCarry(vault.total_value_locked, initial_tvl).carry = 1

\* transfer_fail: which of the invoked transfers the system program refuses
\* (0: none).  overflow_checks: whether the build panics on integer overflow
\* (otherwise `-` and `+=` wrap).
process_open_position(session_wallet, vault_metadata_info, position_info, config_info, fee_accounts, initial_tvl, protocol, transfer_fail, overflow_checks) ==
    IF AsAccountErr(config_info, "GlobalConfig") # "Ok"
    THEN Fail(AsAccountErr(config_info, "GlobalConfig"))
    ELSE IF IsPaused(accounts[config_info])
    THEN Fail("ProgramPaused")
    ELSE IF AsAccountErr(vault_metadata_info, "VaultMetadata") # "Ok"
    THEN Fail(AsAccountErr(vault_metadata_info, "VaultMetadata"))
    ELSE IF accounts[vault_metadata_info].session_wallet # session_wallet
            \/ accounts[vault_metadata_info].status # STATUS_ACTIVE
    THEN Fail("InvalidAccountData")
    ELSE
    LET config == accounts[config_info]
        vault == accounts[vault_metadata_info]
        fee_amount == FeeAmount(initial_tvl, config.fee_bps)
        referral_fee == ReferralFee(fee_amount, vault.referrer, config.referral_percentage)
        buyback_fee == BuybackFee(fee_amount, config.buyback_percentage)
        treasury == TreasuryFee(fee_amount, referral_fee, buyback_fee)
        requested == FeeTransfers(session_wallet, fee_accounts, referral_fee,
                                  buyback_fee, treasury.value)
        position_id == vault.next_position_id
    IN  IF treasury.underflow /\ overflow_checks
        THEN Fail("Panic")
        ELSE IF transfer_fail \in 1..Len(requested)
        THEN FailAfter("TransferFailed", SubSeq(requested, 1, transfer_fail))
        ELSE IF PositionPda(session_wallet, position_id) # position_info
        THEN FailAfter("InvalidPDA", requested)
        ELSE IF CreateAccountErr(position_info) # "Ok"
        THEN FailAfter(CreateAccountErr(position_info), requested)
        ELSE IF overflow_checks /\ OpenOverflows(vault, fee_amount, initial_tvl)
        THEN FailAfter("Panic", requested)
        ELSE Done(Put(Put(accounts, position_info,
                          NewPosition(session_wallet, position_id, protocol, initial_tvl,
                                      fee_amount)),
                      vault_metadata_info,
                      VaultAfterOpen(vault, fee_amount, initial_tvl)),
                  requested)

(***************************************************************************)
(* close_position.rs                                                       *)
(***************************************************************************)
\* a status check that lets every position through
PositionIsOpenAlways(position) == TRUE

\* position.status == Position::STATUS_OPEN
PositionIsOpen(position) == position.status = STATUS_OPEN

\* the bookkeeping without the decrement of active_positions
VaultAfterCloseKeepingCount(vault, position) ==
    [vault EXCEPT !.total_value_locked = saturating_sub(@, position.current_tvl),
                  !.total_withdrawals = saturating_add(@, position.current_tvl)]

\* the vault after close_position's bookkeeping
VaultAfterClose(vault, position) ==
    [vault EXCEPT !.active_positions = IF @ = 0 THEN 0 ELSE @ - 1,
                  !.total_value_locked = saturating_sub(@, position.current_tvl),
                  !.total_withdrawals = saturating_add(@, position.current_tvl)]

\* a close that also clears the recorded fee
PositionAfterCloseClearingFee(position) ==
    [position EXCEPT !.status = STATUS_CLOSED, !.fee_paid = U64(0)]

\* the position after close_position
PositionAfterClose(position) == [position EXCEPT !.status = STATUS_CLOSED]

\* a close_position that the pause flag gates like open_position
process_close_position_unless_paused(session_wallet, vault_metadata_info, position_info, position_id) ==
    IF AsAccountErr(GlobalConfigPda, "GlobalConfig") = "Ok" /\ IsPaused(accounts[GlobalConfigPda])
    THEN Fail("ProgramPaused")
    ELSE IF PositionPda(session_wallet, position_id) # position_info
    THEN Fail("InvalidPDA")
    ELSE IF AsAccountErr(position_info, "Position") # "Ok"
    THEN Fail(AsAccountErr(position_info, "Position"))
    ELSE IF accounts[position_info].session_wallet # session_wallet
    THEN Fail("Unauthorized")
    ELSE IF ~PositionIsOpen(accounts[position_info])
    THEN Fail("InvalidPositionStatus")
    ELSE IF AsAccountErr(vault_metadata_info, "VaultMetadata") # "Ok"
    THEN Fail(AsAccountErr(vault_metadata_info, "VaultMetadata"))
    ELSE IF accounts[vault_metadata_info].session_wallet # session_wallet
    THEN Fail("InvalidAccountData")
    ELSE Done(Put(Put(accounts, vault_metadata_info,
                      VaultAfterClose(accounts[vault_metadata_info], accounts[position_info])),
                  position_info, PositionAfterClose(accounts[position_info])), <<>>)

\* a close_position that takes whatever vault account it is handed
process_close_position_any_vault(session_wallet, vault_metadata_info, position_info, position_id) ==
    IF PositionPda(session_wallet, position_id) # position_info
    THEN Fail("InvalidPDA")
    ELSE IF AsAccountErr(position_info, "Position") # "Ok"
    THEN Fail(AsAccountErr(position_info, "Position"))
    ELSE IF accounts[position_info].session_wallet # session_wallet
    THEN Fail("Unauthorized")
    ELSE IF ~PositionIsOpen(accounts[position_info])
    THEN Fail("InvalidPositionStatus")
    ELSE IF AsAccountErr(vault_metadata_info, "VaultMetadata") # "Ok"
    THEN Fail(AsAccountErr(vault_metadata_info, "VaultMetadata"))
    ELSE Done(Put(Put(accounts, vault_metadata_info,
                      VaultAfterClose(accounts[vault_metadata_info], accounts[position_info])),
                  position_info, PositionAfterClose(accounts[position_info])), <<>>)

process_close_position(session_wallet, vault_metadata_info, position_info, position_id) ==
    IF PositionPda(session_wallet, position_id) # position_info
    THEN Fail("InvalidPDA")
    ELSE IF AsAccountErr(position_info, "Position") # "Ok"
    THEN Fail(AsAccountErr(position_info, "Position"))
    ELSE IF accounts[position_info].session_wallet # session_wallet
    THEN Fail("Unauthorized")
    ELSE IF ~PositionIsOpen(accounts[position_info])
    THEN Fail("InvalidPositionStatus")
    ELSE IF AsAccountErr(vault_metadata_info, "VaultMetadata") # "Ok"
    THEN Fail(AsAccountErr(vault_metadata_info, "VaultMetadata"))
    ELSE IF accounts[vault_metadata_info].session_wallet # session_wallet
    THEN Fail("InvalidAccountData")
    ELSE Done(Put(Put(accounts, vault_metadata_info,
                      VaultAfterClose(accounts[vault_metadata_info], accounts[position_info])),
                  position_info, PositionAfterClose(accounts[position_info])), <<>>)

(***************************************************************************)
(* update_position_tvl.rs                                                  *)
(***************************************************************************)
\* an update that never lowers fees_claimed
PositionAfterUpdateMonotonic(position, args) ==
    [position EXCEPT !.current_tvl = args.new_tvl,
                     !.fees_claimed = IF Less(args.fees_claimed, @)
                                      THEN @ ELSE args.fees_claimed,
                     !.total_compounded = args.total_compounded]

\* the position after update_position_tvl
PositionAfterUpdate(position, args) ==
    [position EXCEPT !.current_tvl = args.new_tvl,
                     !.fees_claimed = args.fees_claimed,
                     !.total_compounded = args.total_compounded]

process_update_position_tvl(session_wallet, position_info, position_id, args) ==
    IF PositionPda(session_wallet, position_id) # position_info
    THEN Fail("InvalidPDA")
    ELSE IF AsAccountErr(position_info, "Position") # "Ok"
    THEN Fail(AsAccountErr(position_info, "Position"))
    ELSE IF accounts[position_info].session_wallet # session_wallet
    THEN Fail("Unauthorized")
    ELSE IF ~PositionIsOpen(accounts[position_info])
    THEN Fail("InvalidPositionStatus")
    ELSE Done(Put(accounts, position_info,
                  PositionAfterUpdate(accounts[position_info], args)), <<>>)

(***************************************************************************)
(* sdk.rs: the account lists the instruction builders produce, and the     *)
(* processors' destructuring of the list they receive                      *)
(***************************************************************************)
SystemProgram == "system_program"

\* sdk::create_vault's account list
sdk_create_vault(main_wallet, session_wallet) ==
    <<main_wallet, session_wallet, VaultMetadataPda(session_wallet), SystemProgram>>

\* sdk::open_position's account list
sdk_open_position(session_wallet) ==
    <<session_wallet, VaultMetadataPda(session_wallet), GlobalConfigPda, SystemProgram>>

\* process_create_vault from its account list:
\* [session_wallet_info, main_wallet_info, vault_metadata_info, system_program]
create_vault_from_accounts(infos, referrer) ==
    IF Len(infos) # 4
    THEN Fail("NotEnoughAccountKeys")
    ELSE process_create_vault(infos[1], infos[2], infos[3], referrer)

\* process_open_position from its account list:
\* [session_wallet_info, vault_metadata_info, position_info, config_info,
\*  treasury_info, buyback_info, referrer_info, system_program]
open_position_from_accounts(infos, initial_tvl, protocol, transfer_fail, overflow_checks) ==
    IF Len(infos) # 8
    THEN Fail("NotEnoughAccountKeys")
    ELSE process_open_position(infos[1], infos[2], infos[3], infos[4],
                               [treasury |-> infos[5], buyback |-> infos[6],
                                referrer |-> infos[7]],
                               initial_tvl, protocol, transfer_fail, overflow_checks)

(***************************************************************************)
(* lib.rs: process_instruction's CloseVault arm                            *)
(***************************************************************************)
\* a CloseVault that closes the signer's vault once it has no active
\* position (VaultMetadata::STATUS_CLOSED is 2)
process_close_vault_when_empty(session_wallet, vault_metadata_info) ==
    IF /\ AsAccountErr(vault_metadata_info, "VaultMetadata") = "Ok"
       /\ accounts[vault_metadata_info].session_wallet = session_wallet
       /\ accounts[vault_metadata_info].active_positions = 0
    THEN Done(Put(accounts, vault_metadata_info,
                  [accounts[vault_metadata_info] EXCEPT !.status = 2]), <<>>)
    ELSE Fail("InvalidInstructionData")

process_close_vault(session_wallet, vault_metadata_info) == Fail("InvalidInstructionData")

(***************************************************************************)
(* Instruction inputs.  A universe U names the finite sets the inputs of   *)
(* the instructions are drawn from.                                        *)
(***************************************************************************)
\* the InitializeConfig arguments of the api's defaults
\* (GlobalConfig::DEFAULT_*)
DefaultConfigArgs ==
    [treasury |-> "tr", buyback_wallet |-> "bb", fee_bps |-> 70,
     referral_pct |-> 10, buyback_pct |-> 45, treasury_pct |-> 45]

\* argument tuples whose percentages do not sum to 100: 99, and
\* 356 = 100 + 256
InvalidConfigArgs ==
    { [DefaultConfigArgs EXCEPT !.treasury_pct = 44],
      [DefaultConfigArgs EXCEPT !.referral_pct = 100, !.buyback_pct = 100,
                                !.treasury_pct = 156] }

\* the account infos a caller may put in the config slot: the config's
\* address, or another one
ConfigInfoInputs == {GlobalConfigPda, VaultMetadataPda("w1")}

\* the account infos a caller may put in the three fee destination slots of
\* open_position: the configured ones, or the caller's own
FeeAccountInputs(choice, session_wallet) ==
    IF choice = "configured"
    THEN [treasury |-> "tr", buyback |-> "bb", referrer |-> "ref"]
    ELSE [treasury |-> session_wallet, buyback |-> session_wallet,
          referrer |-> session_wallet]

\* two owners, two positions, the default rate: the lifecycle of the records
Inputs ==
    [ wallets |-> {"w1", "w2"},
      main_wallets |-> {"m1"},
      referrers |-> {"ref"},
      config_args |-> {DefaultConfigArgs} \cup InvalidConfigArgs,
      paused |-> {0, 1},
      tvls |-> {U64(1000000), U64Max},
      protocols |-> {PROTOCOL_DLMM},
      update_args |-> { [new_tvl |-> U64(2000000), fees_claimed |-> U64(9),
                         total_compounded |-> U64(4)] },
      fee_accounts |-> {"configured"},
      transfer_fail |-> {0, 2},
      overflow_checks |-> BOOLEAN,
      position_ids |-> 0..(MaxPositions - 1),
      max_positions |-> MaxPositions ]

\* one owner, one position, the rates and amounts at the edges of their
\* widths: the arithmetic of the fee
FeeInputs ==
    [ wallets |-> {"w1"},
      main_wallets |-> {"m1"},
      referrers |-> {DefaultPubkey, "ref"},
      config_args |-> { DefaultConfigArgs,
                        [DefaultConfigArgs EXCEPT !.fee_bps = 65535, !.referral_pct = 50,
                                                  !.buyback_pct = 50, !.treasury_pct = 0],
                        [DefaultConfigArgs EXCEPT !.fee_bps = 10000, !.referral_pct = 33,
                                                  !.buyback_pct = 33, !.treasury_pct = 34],
                        [DefaultConfigArgs EXCEPT !.fee_bps = 0, !.referral_pct = 100,
                                                  !.buyback_pct = 0, !.treasury_pct = 0] }
                      \cup InvalidConfigArgs,
      paused |-> {0},
      tvls |-> {U64(0), U64(12345), U64Max},
      protocols |-> {PROTOCOL_DLMM},
      update_args |-> { [new_tvl |-> U64(500), fees_claimed |-> U64(3),
                         total_compounded |-> U64(0)] },
      fee_accounts |-> {"configured"},
      transfer_fail |-> {0, 3},
      overflow_checks |-> BOOLEAN,
      position_ids |-> 0..FeeMaxPositions,
      max_positions |-> FeeMaxPositions ]

\* one owner, one amount, protocol tags inside and outside the recognized
\* range: what open_position stores of its arguments
ProtocolInputs ==
    [ wallets |-> {"w1"},
      main_wallets |-> {"m1"},
      referrers |-> {"ref"},
      config_args |-> {DefaultConfigArgs},
      paused |-> {0},
      tvls |-> {U64(1000000)},
      protocols |-> {PROTOCOL_DLMM, PROTOCOL_ALPHA_VAULT, PROTOCOL_ALPHA_VAULT + 1, 255},
      update_args |-> { [new_tvl |-> U64(500), fees_claimed |-> U64(3),
                         total_compounded |-> U64(0)] },
      fee_accounts |-> {"configured"},
      transfer_fail |-> {0},
      overflow_checks |-> {TRUE},
      position_ids |-> 0..(MaxPositions - 1),
      max_positions |-> MaxPositions ]

\* two owners and one amount under a config that is paused and unpaused:
\* what the pause flag lets through
ClosingInputs ==
    [ wallets |-> {"w1", "w2"},
      main_wallets |-> {"m1"},
      referrers |-> {"ref"},
      config_args |-> {DefaultConfigArgs},
      paused |-> {0, 1},
      tvls |-> {U64(1000000)},
      protocols |-> {PROTOCOL_DLMM},
      update_args |-> { [new_tvl |-> U64(500), fees_claimed |-> U64(3),
                         total_compounded |-> U64(0)] },
      fee_accounts |-> {"configured"},
      transfer_fail |-> {0},
      overflow_checks |-> {TRUE},
      position_ids |-> 0..(MaxPositions - 1),
      max_positions |-> MaxPositions ]

\* the positions in the store
Positions == {a \in DOMAIN accounts : accounts[a].kind = "Position"}

(***************************************************************************)
(* The state machine                                                       *)
(***************************************************************************)
Init == accounts = <<>>

InitializeConfig(U) ==
    \E admin \in U.wallets, args \in U.config_args,
       config_info \in ConfigInfoInputs :
        accounts' = process_initialize_config(admin, config_info, args).accounts

UpdateConfig(U) ==
    \E admin \in U.wallets, args \in U.config_args, paused \in U.paused,
       config_info \in ConfigInfoInputs :
        accounts' = process_update_config(admin, config_info, args, paused).accounts

CreateVault(U) ==
    \E session_wallet \in U.wallets, main_wallet \in U.main_wallets,
       owner \in U.wallets, referrer \in U.referrers :
        accounts' = process_create_vault(session_wallet, main_wallet,
                                         VaultMetadataPda(owner), referrer).accounts

OpenPosition(U) ==
    \E session_wallet \in U.wallets, owner \in U.wallets,
       position_id \in U.position_ids, initial_tvl \in U.tvls,
       protocol \in U.protocols,
       fee_accounts \in U.fee_accounts, transfer_fail \in U.transfer_fail,
       overflow_checks \in U.overflow_checks :
        /\ accounts' = process_open_position(
                            session_wallet, VaultMetadataPda(owner),
                            PositionPda(session_wallet, position_id), GlobalConfigPda,
                            FeeAccountInputs(fee_accounts, session_wallet), initial_tvl,
                            protocol, transfer_fail, overflow_checks).accounts
        /\ Cardinality(Positions') <= U.max_positions

ClosePosition(U) ==
    \E session_wallet \in U.wallets, owner \in U.wallets,
       position_owner \in U.wallets, position_id \in U.position_ids :
        accounts' = process_close_position(session_wallet, VaultMetadataPda(owner),
                                           PositionPda(position_owner, position_id),
                                           position_id).accounts

UpdatePositionTvl(U) ==
    \E session_wallet \in U.wallets, position_owner \in U.wallets,
       position_id \in U.position_ids, args \in U.update_args :
        accounts' = process_update_position_tvl(session_wallet,
                                                PositionPda(position_owner, position_id),
                                                position_id, args).accounts

CloseVault(U) ==
    \E session_wallet \in U.wallets :
        accounts' = process_close_vault(session_wallet,
                                        VaultMetadataPda(session_wallet)).accounts

Step(U) ==
    \/ InitializeConfig(U)
    \/ UpdateConfig(U)
    \/ CreateVault(U)
    \/ OpenPosition(U)
    \/ ClosePosition(U)
    \/ UpdatePositionTvl(U)
    \/ CloseVault(U)

Next == Step(Inputs)

Spec == Init /\ [][Next]_vars

NextFee == Step(FeeInputs)

SpecFee == Init /\ [][NextFee]_vars

NextProtocol == Step(ProtocolInputs)

SpecProtocol == Init /\ [][NextProtocol]_vars

\* an owner who wants a position closed keeps submitting close_position
\* with their own vault and position until it goes through
OwnerClosesPosition(session_wallet, position_id) ==
    accounts' = process_close_position(session_wallet, VaultMetadataPda(session_wallet),
                                       PositionPda(session_wallet, position_id),
                                       position_id).accounts

OwnersKeepClosing ==
    \A session_wallet \in ClosingInputs.wallets, position_id \in ClosingInputs.position_ids :
        WF_vars(OwnerClosesPosition(session_wallet, position_id))

NextClosing == Step(ClosingInputs)

SpecClosing == Init /\ [][NextClosing]_vars /\ OwnersKeepClosing

(***************************************************************************)
(* Views of the store and exact arithmetic, for the properties             *)
(***************************************************************************)
HasConfig == GlobalConfigPda \in DOMAIN accounts
Config == accounts[GlobalConfigPda]

HasVault(w) == VaultMetadataPda(w) \in DOMAIN accounts
Vault(w) == accounts[VaultMetadataPda(w)]

PositionsOf(w) == {a \in Positions : accounts[a].session_wallet = w}

\* a u64 as a 128-bit number
Wide(x) == Widen(x, U128Len)

\* a + b + c without wrapping, as a 128-bit number
Sum3(a, b, c) == AddCarry(AddCarry(Wide(a), Wide(b)).sum, Wide(c)).sum

\* q = floor(a * k / d) in the naturals: q * d <= a * k < q * d + d
IsFloorOf(q, a, k, d) ==
    LET qd == MulSmall(Wide(q), d)
        ak == MulSmall(Wide(a), k)
    IN  /\ ~Less(ak, qd)
        /\ Less(ak, AddCarry(qd, ToLimbs(d, U128Len)).sum)

\* P(session_wallet, position_id, initial_tvl, r) for every open_position
\* the universe U can issue on the owner's vault in the current state, r
\* its outcome
AllOpens(U, P(_, _, _, _)) ==
    \A session_wallet \in U.wallets, position_id \in U.position_ids,
       initial_tvl \in U.tvls, protocol \in U.protocols,
       fee_accounts \in U.fee_accounts,
       transfer_fail \in U.transfer_fail, overflow_checks \in U.overflow_checks :
        \A r \in {process_open_position(
                        session_wallet, VaultMetadataPda(session_wallet),
                        PositionPda(session_wallet, position_id), GlobalConfigPda,
                        FeeAccountInputs(fee_accounts, session_wallet),
                        initial_tvl, protocol, transfer_fail, overflow_checks)} :
            P(session_wallet, position_id, initial_tvl, r)

(***************************************************************************)
(* C1                                                                      *)
(***************************************************************************)
PercentagesSumTo100(args) ==
    args.referral_pct + args.buyback_pct + args.treasury_pct = 100

\* C1: whenever the GlobalConfig exists its three percentages sum to 100,
\* and every initialize_config and update_config whose percentages do not
\* sum to 100 returns InvalidFeePercentages and leaves the store as it was.
C1_FeePercentagesSumTo100 ==
    /\ HasConfig =>
        Config.referral_percentage + Config.buyback_percentage
            + Config.treasury_percentage = 100
    /\ \A admin \in FeeInputs.wallets, args \in FeeInputs.config_args,
          paused \in FeeInputs.paused, config_info \in ConfigInfoInputs :
        ~PercentagesSumTo100(args) =>
            /\ process_initialize_config(admin, config_info, args).err
                    = "InvalidFeePercentages"
            /\ process_initialize_config(admin, config_info, args).accounts = accounts
            /\ process_update_config(admin, config_info, args, paused).err
                    = "InvalidFeePercentages"
            /\ process_update_config(admin, config_info, args, paused).accounts = accounts

\* a config that was initialized and then updated, on which its admin's
\* update with a bad sum is refused
C1_Witness ==
    /\ HasConfig
    /\ Config.fee_bps = 65535
    /\ Config.admin = "w1"
    /\ \E args \in FeeInputs.config_args :
        /\ ~PercentagesSumTo100(args)
        /\ process_update_config(Config.admin, GlobalConfigPda, args, 0).err
                = "InvalidFeePercentages"

(***************************************************************************)
(* C2                                                                      *)
(***************************************************************************)
\* the shares a successful open_position transferred: the last transfer is
\* the treasury's, the one before it the buyback's, and a third one, if
\* any, the referrer's
SharesOf(invoked) ==
    [treasury |-> invoked[Len(invoked)].amount,
     buyback |-> invoked[Len(invoked) - 1].amount,
     referral |-> IF Len(invoked) = 3 THEN invoked[1].amount ELSE U64(0)]

SplitIsExact(session_wallet, position_id, initial_tvl, r) ==
    r.err = "Ok" =>
        LET fee == r.accounts[PositionPda(session_wallet, position_id)].fee_paid
            shares == SharesOf(r.invoked)
        IN  /\ Len(r.invoked) \in {2, 3}
            /\ \A i \in 1..Len(r.invoked) : r.invoked[i].from = session_wallet
            /\ IF Vault(session_wallet).referrer # DefaultPubkey
               THEN IsFloorOf(shares.referral, fee, Config.referral_percentage, 100)
               ELSE shares.referral = U64(0)
            /\ IsFloorOf(shares.buyback, fee, Config.buyback_percentage, 100)
            /\ Sum3(shares.referral, shares.buyback, shares.treasury) = Wide(fee)

\* C2: for every successful open_position the referral share is
\* floor(fee * referral_pct / 100) when the vault has a referrer and 0
\* otherwise, the buyback share is floor(fee * buyback_pct / 100), and the
\* three shares, all transferred from the opener, sum (without wrapping) to
\* the fee recorded in position.fee_paid, so the treasury share is
\* fee - referral - buyback and did not underflow.
C2_FeeSplitSumsToFee == AllOpens(FeeInputs, SplitIsExact)

\* a position opened under a referred vault with a fee of 86 (12345 at 70
\* bps), which no percentage of the configs divides evenly
C2_Witness ==
    \E a \in Positions :
        /\ accounts[a].fee_paid = U64(86)
        /\ Vault(accounts[a].session_wallet).referrer # DefaultPubkey

(***************************************************************************)
(* C3                                                                      *)
(***************************************************************************)
FeeIsExactFloor(session_wallet, position_id, initial_tvl, r) ==
    r.err = "Ok" =>
        IsFloorOf(r.accounts[PositionPda(session_wallet, position_id)].fee_paid,
                  initial_tvl, Config.fee_bps, 10000)

\* C3: for every initial_tvl and every fee_bps a stored config holds, the
\* fee_paid that a successful open_position records is exactly
\* floor(initial_tvl * fee_bps / 10000).
C3_FeeIsExactFloor == AllOpens(FeeInputs, FeeIsExactFloor)

(***************************************************************************)
(* C4                                                                      *)
(***************************************************************************)
OpenPositionsOf(w) == {a \in PositionsOf(w) : accounts[a].status = STATUS_OPEN}
ClosedPositionsOf(w) == {a \in PositionsOf(w) : accounts[a].status = STATUS_CLOSED}

\* C4: in every reachable state, every vault's active_positions equals the
\* number of position records of its owner whose status is Open.
C4_ActiveCountMatchesOpenPositions ==
    \A w \in Inputs.wallets :
        /\ HasVault(w) => Vault(w).active_positions = Cardinality(OpenPositionsOf(w))
        /\ ~HasVault(w) => PositionsOf(w) = {}

\* a vault with one Open and one Closed position
C4_Witness ==
    \E w \in Inputs.wallets :
        /\ HasVault(w)
        /\ Cardinality(OpenPositionsOf(w)) = 1
        /\ Cardinality(ClosedPositionsOf(w)) = 1

(***************************************************************************)
(* C5                                                                      *)
(***************************************************************************)
\* every close_position and update_position_tvl aimed at the position at
\* address a fails and leaves the store as it was; its owner's, under its
\* own position_id, fail with InvalidPositionStatus
RejectsCloseAndUpdate(a) ==
    /\ \A session_wallet \in Inputs.wallets, owner \in Inputs.wallets,
          position_id \in Inputs.position_ids :
        LET r == process_close_position(session_wallet, VaultMetadataPda(owner),
                                        a, position_id)
        IN  /\ r.err # "Ok"
            /\ r.accounts = accounts
            /\ (session_wallet = accounts[a].session_wallet
                    /\ position_id = accounts[a].position_id)
                => r.err = "InvalidPositionStatus"
    /\ \A session_wallet \in Inputs.wallets, position_id \in Inputs.position_ids,
          args \in Inputs.update_args :
        LET r == process_update_position_tvl(session_wallet, a, position_id, args)
        IN  /\ r.err # "Ok"
            /\ r.accounts = accounts
            /\ (session_wallet = accounts[a].session_wallet
                    /\ position_id = accounts[a].position_id)
                => r.err = "InvalidPositionStatus"

ClosedPositionsReject ==
    \A a \in Positions :
        accounts[a].status = STATUS_CLOSED => RejectsCloseAndUpdate(a)

ClosedPositionsStayClosed ==
    \A a \in Positions :
        accounts[a].status = STATUS_CLOSED =>
            /\ a \in DOMAIN accounts'
            /\ accounts'[a] = accounts[a]

\* C5: a position whose status is Closed keeps that status (and its whole
\* record) in every later state, and every close_position and
\* update_position_tvl on it fails, its owner's with InvalidPositionStatus,
\* leaving the position record and the vault record unchanged.
C5_ClosedIsTerminal == []ClosedPositionsReject /\ [][ClosedPositionsStayClosed]_vars

\* a Closed position whose TVL had been updated while it was Open, next to
\* a position of the same owner that is still Open
C5_Witness ==
    \E a \in Positions :
        /\ accounts[a].status = STATUS_CLOSED
        /\ accounts[a].current_tvl # accounts[a].initial_tvl
        /\ OpenPositionsOf(accounts[a].session_wallet) # {}

(***************************************************************************)
(* C6                                                                      *)
(***************************************************************************)
\* C6: whenever config.paused is set, every open_position fails, with
\* ProgramPaused when it is handed the GlobalConfig, and has no side
\* effect: the store (position and vault records) is unchanged and no
\* transfer is requested.
C6_PausedRejectsOpen ==
    (HasConfig /\ Config.paused # 0) =>
        \A session_wallet \in Inputs.wallets, owner \in Inputs.wallets,
           position_id \in Inputs.position_ids, initial_tvl \in Inputs.tvls,
           fee_accounts \in Inputs.fee_accounts,
           transfer_fail \in Inputs.transfer_fail,
           overflow_checks \in Inputs.overflow_checks,
           config_info \in ConfigInfoInputs :
            LET r == process_open_position(
                        session_wallet, VaultMetadataPda(owner),
                        PositionPda(session_wallet, position_id), config_info,
                        FeeAccountInputs(fee_accounts, session_wallet), initial_tvl,
                        PROTOCOL_DLMM, transfer_fail, overflow_checks)
            IN  /\ r.err # "Ok"
                /\ config_info = GlobalConfigPda => r.err = "ProgramPaused"
                /\ r.accounts = accounts
                /\ r.invoked = <<>>

\* a paused program holding a vault with an Open position, on which the
\* open_position that would otherwise be next is refused
C6_Witness ==
    /\ HasConfig
    /\ Config.paused # 0
    /\ \E w \in Inputs.wallets :
        /\ HasVault(w)
        /\ OpenPositionsOf(w) # {}
        /\ Vault(w).next_position_id \in Inputs.position_ids

(***************************************************************************)
(* C7                                                                      *)
(***************************************************************************)
\* new = old + delta in the naturals
IsSumOf(new, old, delta) == Wide(new) = AddCarry(Wide(old), Wide(delta)).sum

OpenEffectIsExact(session_wallet, position_id, initial_tvl, r) ==
    r.err = "Ok" =>
        LET position == r.accounts[PositionPda(session_wallet, position_id)]
            before == Vault(session_wallet)
            after == r.accounts[VaultMetadataPda(session_wallet)]
            fee == FeeAmount(initial_tvl, Config.fee_bps)
        IN  /\ position.status = STATUS_OPEN
            /\ position.fee_paid = fee
            /\ position.initial_tvl = initial_tvl
            /\ position.current_tvl = initial_tvl
            /\ position.fees_claimed = U64(0)
            /\ position.total_compounded = U64(0)
            /\ after.active_positions = before.active_positions + 1
            /\ after.next_position_id = before.next_position_id + 1
            /\ IsSumOf(after.total_fees_paid, before.total_fees_paid, fee)
            /\ IsSumOf(after.total_value_locked, before.total_value_locked, initial_tvl)

\* C7: every successful open_position creates a position with status Open,
\* fee_paid = the computed fee, initial_tvl = current_tvl = the argument,
\* fees_claimed = total_compounded = 0, and leaves the owner's vault with
\* active_positions + 1, next_position_id + 1, total_fees_paid + fee and
\* total_value_locked + initial_tvl, the sums taken in the naturals.
C7_OpenEffectIsExact == AllOpens(Inputs, OpenEffectIsExact)

(***************************************************************************)
(* C8                                                                      *)
(***************************************************************************)
CloseEffectIsExact(session_wallet, position_id, r) ==
    r.err = "Ok" =>
        LET closed == accounts[PositionPda(session_wallet, position_id)]
            before == Vault(session_wallet)
            after == r.accounts[VaultMetadataPda(session_wallet)]
        IN  /\ r.accounts[PositionPda(session_wallet, position_id)].status = STATUS_CLOSED
            /\ after.active_positions =
                    IF before.active_positions = 0 THEN 0 ELSE before.active_positions - 1
            /\ IF Less(before.total_value_locked, closed.current_tvl)
               THEN after.total_value_locked = U64(0)
               ELSE IsSumOf(before.total_value_locked, after.total_value_locked,
                            closed.current_tvl)
            /\ IsSumOf(after.total_withdrawals, before.total_withdrawals,
                       closed.current_tvl)
            /\ after.total_fees_paid = before.total_fees_paid
            /\ after.total_deposits = before.total_deposits
            /\ after.next_position_id = before.next_position_id

\* C8: every successful close_position sets the position's status to
\* Closed and leaves the owner's vault with active_positions - 1
\* (saturating at 0), total_value_locked - current_tvl (saturating at 0),
\* total_withdrawals + current_tvl (in the naturals), and total_fees_paid,
\* total_deposits and next_position_id as they were.
C8_CloseEffectIsExact ==
    \A session_wallet \in Inputs.wallets, position_id \in Inputs.position_ids :
        CloseEffectIsExact(session_wallet, position_id,
                           process_close_position(session_wallet,
                                                  VaultMetadataPda(session_wallet),
                                                  PositionPda(session_wallet, position_id),
                                                  position_id))

(***************************************************************************)
(* C9                                                                      *)
(***************************************************************************)
IdsAreDense ==
    \A w \in Inputs.wallets :
        IF HasVault(w)
        THEN /\ {accounts[a].position_id : a \in PositionsOf(w)}
                    = 0..(Vault(w).next_position_id - 1)
             /\ Cardinality(PositionsOf(w)) = Vault(w).next_position_id
             /\ \A a \in PositionsOf(w) : a = PositionPda(w, accounts[a].position_id)
        ELSE PositionsOf(w) = {}

OpenTakesNextId(session_wallet, position_id, initial_tvl, r) ==
    r.err = "Ok" =>
        /\ position_id = Vault(session_wallet).next_position_id
        /\ r.accounts[PositionPda(session_wallet, position_id)].position_id = position_id

NextIdNeverDecreases ==
    \A w \in Inputs.wallets :
        /\ HasVault(w) =>
            /\ VaultMetadataPda(w) \in DOMAIN accounts'
            /\ accounts'[VaultMetadataPda(w)].next_position_id >= Vault(w).next_position_id
        /\ (~HasVault(w) /\ VaultMetadataPda(w) \in DOMAIN accounts') =>
            accounts'[VaultMetadataPda(w)].next_position_id = 0

\* C9: in every reachable state an owner's positions, Open or Closed, carry
\* exactly the ids 0 .. next_position_id - 1, one position per id; every
\* successful open_position assigns the vault's next_position_id of before
\* the call; next_position_id is 0 in a new vault and never decreases.
C9_PositionIdsDenseAndMonotonic ==
    [](IdsAreDense /\ AllOpens(Inputs, OpenTakesNextId)) /\ [][NextIdNeverDecreases]_vars

\* an owner with positions 0 (Closed) and 1 (Open)
C9_Witness ==
    \E w \in Inputs.wallets :
        /\ HasVault(w)
        /\ Vault(w).next_position_id = 2
        /\ PositionPda(w, 0) \in ClosedPositionsOf(w)
        /\ PositionPda(w, 1) \in OpenPositionsOf(w)

(***************************************************************************)
(* C10                                                                     *)
(***************************************************************************)
\* C10: there is at most one GlobalConfig; while there is none, every
\* initialize_config with percentages summing to 100 on the config address
\* creates it with paused = 0 and admin = the signer; once there is one,
\* every initialize_config, by any signer with any arguments, fails and
\* leaves the store as it was.
C10_ConfigCreatedAtMostOnce ==
    /\ \A a \in DOMAIN accounts : accounts[a].kind = "GlobalConfig" => a = GlobalConfigPda
    /\ \A admin \in Inputs.wallets, args \in Inputs.config_args,
          config_info \in ConfigInfoInputs :
        LET r == process_initialize_config(admin, config_info, args)
        IN  /\ HasConfig => (r.err # "Ok" /\ r.accounts = accounts)
            /\ (~HasConfig /\ PercentagesSumTo100(args) /\ config_info = GlobalConfigPda)
                => /\ r.err = "Ok"
                   /\ r.accounts[GlobalConfigPda].paused = 0
                   /\ r.accounts[GlobalConfigPda].admin = admin

\* a config created by w2 and never updated, on which w1's valid
\* initialize_config finds the address in use
C10_Witness ==
    /\ HasConfig
    /\ Config.admin = "w2"
    /\ Config.paused = 0
    /\ process_initialize_config("w1", GlobalConfigPda, DefaultConfigArgs).err
            = "AccountAlreadyInUse"

(***************************************************************************)
(* C11                                                                     *)
(***************************************************************************)
\* C11: on an existing config, every update_config with percentages summing
\* to 100 fails with Unauthorized and leaves the config unchanged when its
\* signer is not config.admin, and succeeds when it is, overwriting
\* treasury, buyback_wallet, fee_bps, the three percentages and paused.
C11_UpdateConfigAuthorization ==
    HasConfig =>
        \A admin \in Inputs.wallets, args \in Inputs.config_args,
           paused \in Inputs.paused :
            PercentagesSumTo100(args) =>
                \A r \in {process_update_config(admin, GlobalConfigPda, args, paused)} :
                    IF admin # Config.admin
                    THEN /\ r.err = "Unauthorized"
                         /\ r.accounts = accounts
                    ELSE /\ r.err = "Ok"
                         /\ r.accounts[GlobalConfigPda] =
                                [kind |-> "GlobalConfig",
                                 admin |-> Config.admin,
                                 treasury |-> args.treasury,
                                 buyback_wallet |-> args.buyback_wallet,
                                 fee_bps |-> args.fee_bps,
                                 referral_percentage |-> args.referral_pct,
                                 buyback_percentage |-> args.buyback_pct,
                                 treasury_percentage |-> args.treasury_pct,
                                 paused |-> paused]

(***************************************************************************)
(* C12                                                                     *)
(***************************************************************************)
Vaults == {a \in DOMAIN accounts : accounts[a].kind = "VaultMetadata"}

\* C12: every vault sits at the address derived from its owner, so an owner
\* has at most one; create_vault by an owner without a vault, on the
\* owner's derived address, succeeds and writes a vault with all four
\* aggregates 0, next_position_id = 0, active_positions = 0 and status
\* Active, touching nothing else; every create_vault by an owner that has a
\* vault, and every create_vault on another address, fails and leaves the
\* store (the existing vault included) unchanged.
C12_OneVaultPerOwner ==
    /\ \A a \in Vaults : a = VaultMetadataPda(accounts[a].session_wallet)
    /\ \A session_wallet \in Inputs.wallets, main_wallet \in Inputs.main_wallets,
          owner \in Inputs.wallets, referrer \in Inputs.referrers \cup {DefaultPubkey} :
        \A r \in {process_create_vault(session_wallet, main_wallet,
                                       VaultMetadataPda(owner), referrer)} :
            IF ~HasVault(session_wallet) /\ owner = session_wallet
            THEN /\ r.err = "Ok"
                 /\ DOMAIN r.accounts = DOMAIN accounts \cup {VaultMetadataPda(session_wallet)}
                 /\ \A a \in DOMAIN accounts : r.accounts[a] = accounts[a]
                 /\ r.accounts[VaultMetadataPda(session_wallet)] =
                        [kind |-> "VaultMetadata",
                         session_wallet |-> session_wallet,
                         main_wallet |-> main_wallet,
                         referrer |-> referrer,
                         total_value_locked |-> U64(0),
                         total_deposits |-> U64(0),
                         total_withdrawals |-> U64(0),
                         total_fees_paid |-> U64(0),
                         active_positions |-> 0,
                         next_position_id |-> 0,
                         status |-> STATUS_ACTIVE]
            ELSE /\ r.err # "Ok"
                 /\ r.accounts = accounts

\* an owner whose vault has accumulated fees and a position, on which the
\* owner's second create_vault finds the address in use, while the other
\* owner has no vault yet
C12_Witness ==
    /\ HasVault("w1")
    /\ ~HasVault("w2")
    /\ Vault("w1").next_position_id = 1
    /\ Vault("w1").total_fees_paid # U64(0)
    /\ process_create_vault("w1", "m1", VaultMetadataPda("w1"), DefaultPubkey).err
            = "AccountAlreadyInUse"

(***************************************************************************)
(* C13                                                                     *)
(***************************************************************************)
\* the system transfers the model lets fail: none (0), or the 1st .. 3rd
TransferFailures == 0..3

OpenIsAllOrNothing(session_wallet, position_info, transfer_fail, r) ==
    /\ r.err # "Ok" =>
        /\ r.accounts = accounts
        /\ TransfersInEffect(r) = <<>>
    /\ r.err = "Ok" =>
        /\ transfer_fail = 0 \/ transfer_fail > Len(r.invoked)
        /\ position_info = PositionPda(session_wallet, Vault(session_wallet).next_position_id)
        /\ position_info \notin DOMAIN accounts
        /\ TransfersInEffect(r) = r.invoked

\* C13: every open_position in which a requested fee transfer fails, or in
\* which a check after the transfers fails (the position-address check, the
\* creation of the position account, an overflow panic), returns Err,
\* leaves the store unchanged (no position record, vault as it was) and
\* leaves no transfer in effect; only a call all of whose transfers went
\* through, on the right unused position address, returns Ok.
\* a failing transfer is tried on the checked build, and both builds on
\* calls whose transfers go through
FailurePoints ==
    { [transfer_fail |-> t, overflow_checks |-> TRUE] : t \in TransferFailures }
        \cup { [transfer_fail |-> 0, overflow_checks |-> FALSE] }

C13_OpenIsAllOrNothing ==
    \A session_wallet \in Inputs.wallets, position_id \in Inputs.position_ids,
       initial_tvl \in Inputs.tvls, f \in FailurePoints :
        \A r \in {process_open_position(
                    session_wallet, VaultMetadataPda(session_wallet),
                    PositionPda(session_wallet, position_id), GlobalConfigPda,
                    FeeAccountInputs("configured", session_wallet), initial_tvl,
                    PROTOCOL_DLMM, f.transfer_fail, f.overflow_checks)} :
            OpenIsAllOrNothing(session_wallet, PositionPda(session_wallet, position_id),
                               f.transfer_fail, r)

\* a state in which one open_position fails on its third transfer, after
\* two went through, and another fails the position-address check after
\* all three transfers were requested
C13_Witness ==
    /\ HasVault("w1")
    /\ Vault("w1").next_position_id = 1
    /\ \A r \in {process_open_position(
                    "w1", VaultMetadataPda("w1"), PositionPda("w1", 1), GlobalConfigPda,
                    FeeAccountInputs("configured", "w1"), U64(1000000),
                    PROTOCOL_DLMM, 3, TRUE)} :
        r.err = "TransferFailed" /\ Len(r.invoked) = 3
    /\ \A r \in {process_open_position(
                    "w1", VaultMetadataPda("w1"), PositionPda("w1", 0), GlobalConfigPda,
                    FeeAccountInputs("configured", "w1"), U64(1000000),
                    PROTOCOL_DLMM, 0, TRUE)} :
        r.err = "InvalidPDA" /\ Len(r.invoked) = 3

(***************************************************************************)
(* C14                                                                     *)
(***************************************************************************)
\* old + delta does not fit a u64
SumOverflows(old, delta) == Less(Wide(U64Max), AddCarry(Wide(old), Wide(delta)).sum)

\* floor(a * k / d) does not fit a u64
QuotientOverflows(a, k, d) ==
    Less(Wide(U64Max), DivSmall(MulSmall(Wide(a), k), d))

\* an open_position that reaches the fee computation and the increments
\* (every earlier check passes) and in which one of them overflows
OpenOverflowIsDetected(session_wallet, position_id, initial_tvl, r) ==
    ( /\ r.err \in {"Ok", "Panic", "ArithmeticOverflow"}
      /\ \/ QuotientOverflows(initial_tvl, Config.fee_bps, 10000)
         \/ SumOverflows(Vault(session_wallet).total_fees_paid,
                         FeeAmount(initial_tvl, Config.fee_bps))
         \/ SumOverflows(Vault(session_wallet).total_value_locked, initial_tvl) )
    => /\ r.err = "ArithmeticOverflow"
       /\ r.accounts = accounts

\* C14: every open_position in which the fee computation or one of the
\* aggregate increments overflows fails with ArithmeticOverflow and leaves
\* the store unchanged.
C14_OpenOverflowIsDetected == AllOpens(Inputs, OpenOverflowIsDetected)

(***************************************************************************)
(* C15                                                                     *)
(***************************************************************************)
\* C15: in every reachable state every CloseVault, by any signer on any
\* vault, is rejected and leaves the store unchanged, also when the vault
\* has no active position; and every vault has status Active.
C15_CloseVaultRejected ==
    /\ \A session_wallet \in Inputs.wallets, owner \in Inputs.wallets :
        \A r \in {process_close_vault(session_wallet, VaultMetadataPda(owner))} :
            /\ r.err # "Ok"
            /\ r.accounts = accounts
            /\ r.invoked = <<>>
    /\ \A a \in Vaults : accounts[a].status = STATUS_ACTIVE

\* a vault whose only position was closed: no active position, and still
\* its owner's CloseVault is refused
C15_Witness ==
    \E w \in Inputs.wallets :
        /\ HasVault(w)
        /\ Vault(w).active_positions = 0
        /\ Vault(w).next_position_id = 1
        /\ process_close_vault(w, VaultMetadataPda(w)).err = "InvalidInstructionData"

(***************************************************************************)
(* C16                                                                     *)
(***************************************************************************)
\* the fee accounts a caller may hand to open_position
FeeAccountChoices == {"configured", "own"}

FeesGoToConfiguredAccounts(session_wallet, r) ==
    r.err = "Ok" =>
        /\ r.invoked[Len(r.invoked)].to = Config.treasury
        /\ r.invoked[Len(r.invoked) - 1].to = Config.buyback_wallet
        /\ Len(r.invoked) = 3 => r.invoked[1].to = Vault(session_wallet).referrer

\* C16: on every successful open_position, whatever accounts the caller
\* hands in, the treasury share is transferred to config.treasury, the
\* buyback share to config.buyback_wallet and the referral share (when
\* there is one) to the vault's referrer.
C16_FeesGoToConfiguredAccounts ==
    \A session_wallet \in Inputs.wallets, position_id \in Inputs.position_ids,
       initial_tvl \in Inputs.tvls, fee_accounts \in FeeAccountChoices,
       overflow_checks \in BOOLEAN :
        \A r \in {process_open_position(
                    session_wallet, VaultMetadataPda(session_wallet),
                    PositionPda(session_wallet, position_id), GlobalConfigPda,
                    FeeAccountInputs(fee_accounts, session_wallet), initial_tvl,
                    PROTOCOL_DLMM, 0, overflow_checks)} :
            FeesGoToConfiguredAccounts(session_wallet, r)

(***************************************************************************)
(* C17                                                                     *)
(***************************************************************************)
RecognizedProtocols ==
    {PROTOCOL_DLMM, PROTOCOL_DAMM_V2, PROTOCOL_DAMM_V1, PROTOCOL_DBC, PROTOCOL_ALPHA_VAULT}

\* C17: every open_position whose protocol is not one of the five
\* recognized values is rejected, and every stored position has a
\* recognized protocol.
C17_ProtocolIsValidated ==
    /\ \A a \in Positions : accounts[a].protocol \in RecognizedProtocols
    /\ \A session_wallet \in ProtocolInputs.wallets,
          position_id \in ProtocolInputs.position_ids,
          initial_tvl \in ProtocolInputs.tvls,
          protocol \in ProtocolInputs.protocols \ RecognizedProtocols :
        process_open_position(
            session_wallet, VaultMetadataPda(session_wallet),
            PositionPda(session_wallet, position_id), GlobalConfigPda,
            FeeAccountInputs("configured", session_wallet), initial_tvl,
            protocol, 0, TRUE).err # "Ok"

(***************************************************************************)
(* C18                                                                     *)
(***************************************************************************)
\* C18: in every reachable state the stored config.fee_bps is at most
\* 10000, and every position has fee_paid <= initial_tvl.
C18_FeeBpsInRange ==
    /\ HasConfig => Config.fee_bps \in 0..10000
    /\ \A a \in Positions : ~Less(accounts[a].initial_tvl, accounts[a].fee_paid)

(***************************************************************************)
(* C19                                                                     *)
(***************************************************************************)
\* the arguments tried on every position: those of the universes and all
\* zeros, so that each stored value meets a lower one
UpdateArgChoices ==
    Inputs.update_args \cup FeeInputs.update_args
        \cup { [new_tvl |-> U64(0), fees_claimed |-> U64(0),
                total_compounded |-> U64(0)] }

\* C19: every update_position_tvl by the owner of an Open position
\* succeeds, whatever the supplied values (lower than the stored ones
\* included), sets current_tvl, fees_claimed and total_compounded to them,
\* leaves every other field of the position, the vault, every other
\* position and the config unchanged, and requests no transfer.
C19_UpdateOverwritesOnlyThreeFields ==
    \A p \in Positions, args \in UpdateArgChoices :
        accounts[p].status = STATUS_OPEN =>
            \A r \in {process_update_position_tvl(accounts[p].session_wallet, p,
                                                  accounts[p].position_id, args)} :
                /\ r.err = "Ok"
                /\ r.invoked = <<>>
                /\ DOMAIN r.accounts = DOMAIN accounts
                /\ \A a \in DOMAIN accounts \ {p} : r.accounts[a] = accounts[a]
                /\ r.accounts[p] =
                        [kind |-> "Position",
                         session_wallet |-> accounts[p].session_wallet,
                         position_id |-> accounts[p].position_id,
                         protocol |-> accounts[p].protocol,
                         initial_tvl |-> accounts[p].initial_tvl,
                         current_tvl |-> args.new_tvl,
                         fee_paid |-> accounts[p].fee_paid,
                         fees_claimed |-> args.fees_claimed,
                         total_compounded |-> args.total_compounded,
                         status |-> STATUS_OPEN]

\* an Open position that was updated (current_tvl 2000000, fees_claimed 9)
\* while its vault still locks the 1000000 it was opened with
C19_Witness ==
    \E p \in Positions :
        /\ accounts[p].status = STATUS_OPEN
        /\ accounts[p].current_tvl = U64(2000000)
        /\ accounts[p].fees_claimed = U64(9)
        /\ Vault(accounts[p].session_wallet).total_value_locked = U64(1000000)

(***************************************************************************)
(* C20                                                                     *)
(***************************************************************************)
\* the vault and position accounts an instruction can be handed
VaultInfos == { VaultMetadataPda(w) : w \in Inputs.wallets }

PositionInfos ==
    { PositionPda(w, i) : w \in Inputs.wallets, i \in Inputs.position_ids }

IsRecordOf(record, owner) ==
    /\ record.kind \in {"VaultMetadata", "Position"}
    /\ record.session_wallet = owner

\* r keeps every account, and each account it creates or modifies is a
\* vault or position record of the signer, before and after
TouchesOnlyRecordsOf(signer, r) ==
    /\ DOMAIN accounts \subseteq DOMAIN r.accounts
    /\ \A a \in DOMAIN r.accounts :
          IF a \notin DOMAIN accounts
          THEN IsRecordOf(r.accounts[a], signer)
          ELSE r.accounts[a] # accounts[a] =>
                   /\ IsRecordOf(accounts[a], signer)
                   /\ IsRecordOf(r.accounts[a], signer)

\* info is an existing record of somebody other than the signer
IsForeign(info, signer) ==
    /\ info \in DOMAIN accounts
    /\ ~IsRecordOf(accounts[info], signer)

OpenIsIsolated ==
    \A signer \in Inputs.wallets, v \in VaultInfos, p \in PositionInfos :
        \A r \in {process_open_position(signer, v, p, GlobalConfigPda,
                                        FeeAccountInputs("configured", signer),
                                        U64(1000000), PROTOCOL_DLMM, 0, TRUE)} :
            /\ TouchesOnlyRecordsOf(signer, r)
            /\ (IsForeign(v, signer) \/ IsForeign(p, signer)) =>
                   r.err # "Ok" /\ r.accounts = accounts

UpdateIsIsolated ==
    \A signer \in Inputs.wallets, p \in PositionInfos,
       position_id \in Inputs.position_ids, args \in Inputs.update_args :
        \A r \in {process_update_position_tvl(signer, p, position_id, args)} :
            /\ TouchesOnlyRecordsOf(signer, r)
            /\ IsForeign(p, signer) => r.err # "Ok" /\ r.accounts = accounts

CloseIsIsolated ==
    \A signer \in Inputs.wallets, v \in VaultInfos, p \in PositionInfos,
       position_id \in Inputs.position_ids :
        \A r \in {process_close_position(signer, v, p, position_id)} :
            /\ TouchesOnlyRecordsOf(signer, r)
            /\ (IsForeign(v, signer) \/ IsForeign(p, signer)) =>
                   r.err # "Ok" /\ r.accounts = accounts

\* C20: whatever vault and position accounts an open_position,
\* update_position_tvl or close_position signed by A is handed, it creates
\* and modifies only vault and position records whose session_wallet is A,
\* and it fails with the store unchanged when the vault or the position it
\* is handed belongs to another owner.
C20_OwnerIsolation == OpenIsIsolated /\ UpdateIsIsolated /\ CloseIsIsolated

\* two owners each hold a vault with an Open position, so that the position
\* of one can be offered with the vault of the other
C20_Witness ==
    \E a \in Inputs.wallets, b \in Inputs.wallets :
        /\ a # b
        /\ HasVault(a) /\ HasVault(b)
        /\ OpenPositionsOf(a) # {} /\ OpenPositionsOf(b) # {}

(***************************************************************************)
(* C21                                                                     *)
(***************************************************************************)
SetOnceFieldsKept ==
    \A a \in Positions :
        /\ a \in Positions'
        /\ accounts'[a].session_wallet = accounts[a].session_wallet
        /\ accounts'[a].position_id = accounts[a].position_id
        /\ accounts'[a].initial_tvl = accounts[a].initial_tvl
        /\ accounts'[a].fee_paid = accounts[a].fee_paid

\* C21: every step (update_position_tvl, close_position, a further open,
\* a config update, any other instruction) leaves the session_wallet,
\* position_id, initial_tvl and fee_paid of every existing position as
\* open_position wrote them.
C21_SetOnceFieldsNeverChange == [][SetOnceFieldsKept]_vars

\* a position that was updated (current_tvl differs from initial_tvl) and
\* then closed, next to a second position of the same owner, under a
\* config that was updated since (paused)
C21_Witness ==
    \E w \in Inputs.wallets : \E a \in ClosedPositionsOf(w) :
        /\ accounts[a].current_tvl # accounts[a].initial_tvl
        /\ accounts[a].fee_paid # U64(0)
        /\ Cardinality(PositionsOf(w)) = 2
        /\ HasConfig /\ IsPaused(Config)

(***************************************************************************)
(* C22                                                                     *)
(***************************************************************************)
\* C22: in every reachable state, a vault whose active_positions is 0 has
\* total_value_locked 0.
C22_NoValueLockedWithoutPositions ==
    \A w \in FeeInputs.wallets \cup Inputs.wallets :
        (HasVault(w) /\ Vault(w).active_positions = 0) =>
            Vault(w).total_value_locked = U64(0)

(***************************************************************************)
(* C23                                                                     *)
(***************************************************************************)
RECURSIVE SumFeePaid(_)
\* the sum of fee_paid over the positions S, and whether it exceeds u64
SumFeePaid(S) ==
    IF S = {} THEN [sum |-> U64(0), carry |-> 0]
    ELSE LET a == CHOOSE x \in S : TRUE
             rest == SumFeePaid(S \ {a})
             added == AddCarry(rest.sum, accounts[a].fee_paid)
         IN  [sum |-> added.sum,
              carry |-> IF rest.carry = 1 \/ added.carry = 1 THEN 1 ELSE 0]

FeesPaidIsSumOfPositions ==
    \A w \in Inputs.wallets :
        HasVault(w) =>
            \A s \in {SumFeePaid(PositionsOf(w))} :
                s.carry = 0 => Vault(w).total_fees_paid = s.sum

\* a step that changes a vault's total_fees_paid is an open_position of
\* its owner: it creates one of the owner's positions
OnlyOpenChangesFeesPaid ==
    \A w \in Inputs.wallets :
        (HasVault(w) /\ accounts'[VaultMetadataPda(w)].total_fees_paid
                            # Vault(w).total_fees_paid) =>
            \E a \in Positions' \ Positions : accounts'[a].session_wallet = w

\* C23: in every reachable state, whenever the sum of fee_paid over all of
\* an owner's positions (Open and Closed) fits in 64 bits, the vault's
\* total_fees_paid equals it, and only a step that opens a position of the
\* owner changes total_fees_paid.
C23_FeesPaidIsSumOfPositions ==
    []FeesPaidIsSumOfPositions /\ [][OnlyOpenChangesFeesPaid]_vars

\* a vault with one Open and one Closed position of 7000 fee each
C23_Witness ==
    \E w \in Inputs.wallets :
        /\ HasVault(w)
        /\ Cardinality(OpenPositionsOf(w)) = 1
        /\ Cardinality(ClosedPositionsOf(w)) = 1
        /\ \A a \in PositionsOf(w) : accounts[a].fee_paid = U64(7000)
        /\ Vault(w).total_fees_paid = U64(14000)

(***************************************************************************)
(* C24                                                                     *)
(***************************************************************************)
AdminKept ==
    HasConfig =>
        /\ GlobalConfigPda \in DOMAIN accounts'
        /\ accounts'[GlobalConfigPda].kind = "GlobalConfig"
        /\ accounts'[GlobalConfigPda].admin = Config.admin

\* an update_config with valid percentages succeeds exactly for the admin,
\* and its result has the same admin
OnlyAdminUpdatesConfig ==
    HasConfig =>
        \A caller \in Inputs.wallets, paused \in Inputs.paused :
            \A r \in {process_update_config(caller, GlobalConfigPda,
                                            DefaultConfigArgs, paused)} :
                /\ r.err = "Ok" <=> caller = Config.admin
                /\ r.accounts[GlobalConfigPda].admin = Config.admin

\* C24: once the config exists, every step, a successful update_config by
\* the admin included, leaves config.admin as initialize_config wrote it,
\* and in every reachable state the callers whose update_config succeeds
\* are exactly that admin.
C24_AdminIsFixed == []OnlyAdminUpdatesConfig /\ [][AdminKept]_vars

\* a config of admin w1 that a successful update_config has paused
C24_Witness ==
    /\ HasConfig
    /\ Config.admin = "w1"
    /\ Config.paused = 1
    /\ process_update_config("w1", GlobalConfigPda, DefaultConfigArgs, 0).err = "Ok"
    /\ process_update_config("w2", GlobalConfigPda, DefaultConfigArgs, 0).err # "Ok"

(***************************************************************************)
(* C25                                                                     *)
(***************************************************************************)
IsOpenAt(w, i) ==
    /\ PositionPda(w, i) \in Positions
    /\ accounts[PositionPda(w, i)].status = STATUS_OPEN

IsClosedAt(w, i) ==
    /\ PositionPda(w, i) \in Positions
    /\ accounts[PositionPda(w, i)].status = STATUS_CLOSED

\* under a paused config, the owner's close and update of each Open
\* position succeed with the effects they have when it is not paused
PausedAllowsCloseAndUpdate ==
    (HasConfig /\ IsPaused(Config)) =>
        \A w \in ClosingInputs.wallets, i \in ClosingInputs.position_ids :
            IsOpenAt(w, i) =>
                LET p == PositionPda(w, i)
                    v == VaultMetadataPda(w)
                IN  /\ \A r \in {process_close_position(w, v, p, i)} :
                          /\ r.err = "Ok"
                          /\ r.accounts[p] = [accounts[p] EXCEPT !.status = STATUS_CLOSED]
                          /\ r.accounts[v].active_positions = accounts[v].active_positions - 1
                          /\ r.accounts[v].total_value_locked =
                                saturating_sub(accounts[v].total_value_locked,
                                               accounts[p].current_tvl)
                          /\ \A a \in DOMAIN accounts \ {p, v} : r.accounts[a] = accounts[a]
                    /\ \A args \in ClosingInputs.update_args :
                          \A r \in {process_update_position_tvl(w, p, i, args)} :
                              /\ r.err = "Ok"
                              /\ r.accounts[p].current_tvl = args.new_tvl
                              /\ r.accounts[p].fees_claimed = args.fees_claimed
                              /\ r.accounts[p].total_compounded = args.total_compounded
                              /\ \A a \in DOMAIN accounts \ {p} : r.accounts[a] = accounts[a]

\* C25: in every reachable state whose config is paused, close_position
\* and update_position_tvl by the owner of an Open position succeed with
\* their normal effects, and an owner who keeps submitting close_position
\* gets every position that is Open under a paused config closed
\* eventually.
C25_PauseGatesOnlyOpen ==
    /\ []PausedAllowsCloseAndUpdate
    /\ \A w \in ClosingInputs.wallets, i \in ClosingInputs.position_ids :
          (HasConfig /\ IsPaused(Config) /\ IsOpenAt(w, i)) ~> IsClosedAt(w, i)

\* a paused config under which an owner holds two Open positions, and a
\* further open is refused
C25_Witness ==
    /\ HasConfig /\ IsPaused(Config)
    /\ \E w \in ClosingInputs.wallets :
          /\ Cardinality(OpenPositionsOf(w)) = 2
          /\ process_open_position(w, VaultMetadataPda(w),
                                   PositionPda(w, Vault(w).next_position_id),
                                   GlobalConfigPda, FeeAccountInputs("configured", w),
                                   U64(1000000), PROTOCOL_DLMM, 0, TRUE).err
                = "ProgramPaused"

(***************************************************************************)
(* C26                                                                     *)
(***************************************************************************)
RejectedAsMalformed(r) == r.err \in {"InvalidPDA", "NotEnoughAccountKeys"}

SdkCreateVaultAccepted ==
    \A session_wallet \in Inputs.wallets, main_wallet \in Inputs.main_wallets :
        (~HasVault(session_wallet) /\ main_wallet # session_wallet) =>
            ~RejectedAsMalformed(
                create_vault_from_accounts(
                    sdk_create_vault(main_wallet, session_wallet), "ref"))

SdkOpenPositionAccepted ==
    \A session_wallet \in Inputs.wallets :
        (HasConfig /\ ~IsPaused(Config) /\ HasVault(session_wallet)) =>
            ~RejectedAsMalformed(
                open_position_from_accounts(
                    sdk_open_position(session_wallet), U64(1000000),
                    PROTOCOL_DLMM, 0, TRUE))

\* C26: in every reachable state, the create_vault instruction the SDK
\* builds for a session wallet without a vault and a different main wallet,
\* and the open_position instruction it builds for the owner of a vault
\* under an unpaused config, are not rejected by their processors with
\* InvalidPDA or NotEnoughAccountKeys.
C26_SdkInstructionsAccepted == SdkCreateVaultAccepted /\ SdkOpenPositionAccepted

====
